---- MODULE Spec2Model ----
(***************************************************************************)
(* A model of the semi-space copying collector of semi.h: the bump         *)
(* allocator, flip/copy/scan/forward/visit, collect, the collection        *)
(* triggered retry and the page-budget negotiation with the large-object   *)
(* space.  Memory is word addressed by byte address (every address in the  *)
(* domain of mem is a multiple of 8) and sparse: a word that is not in     *)
(* the domain of mem reads as zero.                                        *)
(***************************************************************************)
EXTENDS Integers, Sequences, FiniteSets, TLC

\* ------------------------------------------------------------ constants

ALIGNMENT == 8

LARGE_OBJECT_THRESHOLD == 8192

\* getpagesize() of the platform.
PageSize == 4096

\* The address mmap returns for the semi-space: page aligned, and here not
\* aligned to the mapping's size.
SemiBase == 69632

\* initialize_gc's heap_size argument: MinHeapSize * 2^k for k in 0..MaxHeapShift.
MinHeapSize == 16384

MaxHeapShift == 0

\* The first address the large-object space hands out.
LargeBase == 1048576

\* Bounds of the mutator.
MaxAllocs == 4

MaxHandles == 2

MaxStores == 1

NULL == 0

\* ----------------------------------------------------- object layouts
\* The per-kind collaborators (FOR_EACH_HEAP_OBJECT_KIND, name##_size,
\* visit_##name##_fields).  Every kind has a one word header followed by
\* NumFields reference fields; the rest of the object holds no references.

ALLOC_KIND_BLOB == 1

ALLOC_KIND_VECTOR == 2

ALLOC_KIND_TABLE == 3

Kinds == {ALLOC_KIND_BLOB, ALLOC_KIND_VECTOR, ALLOC_KIND_TABLE}

NumFields == 2

\* name##_size(obj): a blob is a small object whose size is not a multiple of
\* the alignment, a vector is exactly LARGE_OBJECT_THRESHOLD bytes (two
\* pages), a table takes three pages.
KindSize(kind) ==
  CASE kind = ALLOC_KIND_BLOB -> 4091
    [] kind = ALLOC_KIND_VECTOR -> 8192
    [] kind = ALLOC_KIND_TABLE -> 12288

FieldAddr(obj, i) == obj + 8 * (i + 1)

\* ------------------------------------------------------------- memory

RECURSIVE Pow2(_)
Pow2(n) == IF n = 0 THEN 1 ELSE 2 * Pow2(n - 1)

RECURSIVE BitAnd(_, _)
BitAnd(a, b) ==
  IF a = 0 \/ b = 0 THEN 0
  ELSE (a % 2) * (b % 2) + 2 * BitAnd(a \div 2, b \div 2)

EmptyMap == [x \in {} |-> 0]

Read(m, a) == IF a \in DOMAIN m THEN m[a] ELSE 0

Write(m, a, val) ==
  IF val = 0 THEN [x \in DOMAIN m \ {a} |-> m[x]]
  ELSE [x \in DOMAIN m \cup {a} |-> IF x = a THEN val ELSE m[x]]

\* The low n bytes of a little-endian word, and the word without them.
LowBytes(val, n) == val % Pow2(8 * n)

HighBytes(val, n) == val - LowBytes(val, n)

\* clear_memory that clears nothing.
clear_memory_nothing(m, addr, size) == m

\* memset(addr, 0, size), addr word aligned: the whole words, then the low
\* bytes of the last, partly covered word.
clear_memory(m, addr, size) ==
  LET full == addr + (size \div 8) * 8
      rest == size % 8
      kept == {a \in DOMAIN m : a < addr \/ a >= full}
      m1 == [a \in kept |-> m[a]]
  IN IF rest = 0 THEN m1 ELSE Write(m1, full, HighBytes(Read(m1, full), rest))

\* memcpy(dst, src, size) of two word aligned, disjoint blocks.
memcpy(m, dst, src, size) ==
  LET nfull == (size \div 8) * 8
      rest == size % 8
      kept == {a \in DOMAIN m : a < dst \/ a >= dst + nfull}
      moved == {a \in DOMAIN m : a >= src /\ a < src + nfull}
      m1 == [a \in kept \cup {dst + (s - src) : s \in moved} |->
               IF a >= dst /\ a < dst + nfull THEN m[src + (a - dst)] ELSE m[a]]
  IN IF rest = 0 THEN m1
     ELSE Write(m1, dst + nfull,
                LowBytes(Read(m, src + nfull), rest)
                  + HighBytes(Read(m1, dst + nfull), rest))

\* madvise(addr, len, MADV_DONTNEED) on a private anonymous mapping: the
\* range reads as zero afterwards.
madvise(m, addr, len) ==
  [a \in {x \in DOMAIN m : x < addr \/ x >= addr + len} |-> m[a]]

\* (addr + align - 1) & ~(align - 1), align a power of two.
align_up(addr, align) ==
  LET x == addr + align - 1 IN x - BitAnd(x, align - 1)

\* --------------------------------------------------------- semi-space
\* A struct semi_space is a record [hp, limit, base, size, count].

\* semi_space_steal_pages without line 61: an odd page count stays odd.
semi_space_steal_pages_odd(space, m, npages) ==
  LET half_size == (npages * PageSize) \div 2
  IN IF space.limit - space.hp < half_size
     THEN [ok |-> FALSE, space |-> space, mem |-> m, released |-> <<>>]
     ELSE LET limit == space.limit - half_size
              tospace_offset == limit - space.base
              fromspace_offset ==
                BitAnd(tospace_offset + space.size \div 2, space.size - 1)
              m1 == madvise(m, space.base + tospace_offset, half_size)
              m2 == madvise(m1, space.base + fromspace_offset, half_size)
          IN [ok |-> TRUE,
              space |-> [space EXCEPT !.limit = limit],
              mem |-> m2,
              released |-> << <<space.base + tospace_offset, half_size>>,
                              <<space.base + fromspace_offset, half_size>> >>]

\* semi_space_steal_pages that, when the pages asked for are not there, takes
\* what there is before it returns 0.
semi_space_steal_pages_partial(space, m, npages0) ==
  LET npages == IF npages0 % 2 = 1 THEN npages0 + 1 ELSE npages0
      half_size == (npages * PageSize) \div 2
  IN IF space.limit - space.hp < half_size
     THEN [ok |-> FALSE, space |-> [space EXCEPT !.limit = space.hp],
           mem |-> m, released |-> <<>>]
     ELSE LET limit == space.limit - half_size
              tospace_offset == limit - space.base
              fromspace_offset ==
                BitAnd(tospace_offset + space.size \div 2, space.size - 1)
              m1 == madvise(m, space.base + tospace_offset, half_size)
              m2 == madvise(m1, space.base + fromspace_offset, half_size)
          IN [ok |-> TRUE,
              space |-> [space EXCEPT !.limit = limit],
              mem |-> m2,
              released |-> << <<space.base + tospace_offset, half_size>>,
                              <<space.base + fromspace_offset, half_size>> >>]

\* semi_space_steal_pages whose mirror offset lacks the mask of line 70.
semi_space_steal_pages_nomask(space, m, npages0) ==
  LET npages == IF npages0 % 2 = 1 THEN npages0 + 1 ELSE npages0
      half_size == (npages * PageSize) \div 2
  IN IF space.limit - space.hp < half_size
     THEN [ok |-> FALSE, space |-> space, mem |-> m, released |-> <<>>]
     ELSE LET limit == space.limit - half_size
              tospace_offset == limit - space.base
              fromspace_offset == tospace_offset + space.size \div 2
              m1 == madvise(m, space.base + tospace_offset, half_size)
              m2 == madvise(m1, space.base + fromspace_offset, half_size)
          IN [ok |-> TRUE,
              space |-> [space EXCEPT !.limit = limit],
              mem |-> m2,
              released |-> << <<space.base + tospace_offset, half_size>>,
                              <<space.base + fromspace_offset, half_size>> >>]

\* semi_space_steal_pages without the test of line 63.
semi_space_steal_pages_unchecked(space, m, npages0) ==
  LET npages == IF npages0 % 2 = 1 THEN npages0 + 1 ELSE npages0
      half_size == (npages * PageSize) \div 2
      limit == space.limit - half_size
      tospace_offset == limit - space.base
      fromspace_offset ==
        BitAnd(tospace_offset + space.size \div 2, space.size - 1)
      m1 == madvise(m, space.base + tospace_offset, half_size)
      m2 == madvise(m1, space.base + fromspace_offset, half_size)
  IN [ok |-> TRUE,
      space |-> [space EXCEPT !.limit = limit],
      mem |-> m2,
      released |-> << <<space.base + tospace_offset, half_size>>,
                      <<space.base + fromspace_offset, half_size>> >>]

\* Returns [ok, space, mem, released]: released lists the <<address, length>>
\* ranges handed to madvise, in call order.
semi_space_steal_pages(space, m, npages0) ==
  LET npages == IF npages0 % 2 = 1 THEN npages0 + 1 ELSE npages0
      half_size == (npages * PageSize) \div 2
  IN IF space.limit - space.hp < half_size
     THEN [ok |-> FALSE, space |-> space, mem |-> m, released |-> <<>>]
     ELSE LET limit == space.limit - half_size
              tospace_offset == limit - space.base
              fromspace_offset ==
                BitAnd(tospace_offset + space.size \div 2, space.size - 1)
              m1 == madvise(m, space.base + tospace_offset, half_size)
              m2 == madvise(m1, space.base + fromspace_offset, half_size)
          IN [ok |-> TRUE,
              space |-> [space EXCEPT !.limit = limit],
              mem |-> m2,
              released |-> << <<space.base + tospace_offset, half_size>>,
                              <<space.base + fromspace_offset, half_size>> >>]

\* flip that leaves limit as the last generation had it.
flip_keeplimit(space) ==
  LET split == space.base + space.size \div 2
  IN IF space.hp <= split
     THEN [space EXCEPT !.hp = split, !.count = space.count + 1]
     ELSE [space EXCEPT !.hp = space.base, !.count = space.count + 1]

flip(space) ==
  LET split == space.base + space.size \div 2
  IN IF space.hp <= split
     THEN [space EXCEPT !.hp = split, !.limit = space.base + space.size,
                        !.count = space.count + 1]
     ELSE [space EXCEPT !.hp = space.base, !.limit = split,
                        !.count = space.count + 1]

\* copy without line 101: the original keeps its kind tag.
copy_noforward(space, m, kind, obj) ==
  IF kind \notin Kinds
  THEN [abort |-> TRUE, new_obj |-> NULL, space |-> space, mem |-> m]
  ELSE LET size == KindSize(kind)
           m1 == memcpy(m, space.hp, obj, size)
       IN [abort |-> FALSE, new_obj |-> space.hp,
           space |-> [space EXCEPT !.hp = space.hp + align_up(size, ALIGNMENT)],
           mem |-> m1]

\* Returns [abort, new_obj, space, mem].
copy(space, m, kind, obj) ==
  IF kind \notin Kinds
  THEN [abort |-> TRUE, new_obj |-> NULL, space |-> space, mem |-> m]
  ELSE LET size == KindSize(kind)
           m1 == memcpy(m, space.hp, obj, size)
           m2 == Write(m1, obj, space.hp)
       IN [abort |-> FALSE, new_obj |-> space.hp,
           space |-> [space EXCEPT !.hp = space.hp + align_up(size, ALIGNMENT)],
           mem |-> m2]

\* forward that answers the object itself when it was copied before.
forward_stale(space, m, obj) ==
  LET header_word == Read(m, obj)
  IN IF header_word \in Kinds
     THEN LET c == copy(space, m, header_word, obj)
          IN [abort |-> c.abort, new_obj |-> c.new_obj, space |-> c.space,
              mem |-> c.mem, copied |-> ~c.abort]
     ELSE [abort |-> FALSE, new_obj |-> obj, space |-> space,
           mem |-> m, copied |-> FALSE]

\* Returns [abort, new_obj, space, mem, copied].
forward(space, m, obj) ==
  LET header_word == Read(m, obj)
  IN IF header_word \in Kinds
     THEN LET c == copy(space, m, header_word, obj)
          IN [abort |-> c.abort, new_obj |-> c.new_obj, space |-> c.space,
              mem |-> c.mem, copied |-> ~c.abort]
     ELSE [abort |-> FALSE, new_obj |-> header_word, space |-> space,
           mem |-> m, copied |-> FALSE]

\* ((uintptr_t)obj - base) < size in 64-bit unsigned arithmetic: an address
\* below base wraps to a difference of at least 2^64 - base, above any size.
semi_space_contains(space, obj) ==
  LET d == obj - space.base IN d >= 0 /\ d < space.size

\* initialize_semi_space: hp = base = mem, count = -1, then one flip.
initialize_semi_space(base, size) ==
  flip([hp |-> base, limit |-> 0, base |-> base, size |-> size, count |-> -1])

\* ------------------------------------------------- large-object space
\* The large-object space's call contract.  A struct large_object_space is a
\* record [objects, from_space, to_space, free, brk,
\* live_pages_at_last_collection]: objects maps the address of every
\* allocated large object to its page count, free maps the start of every
\* free range to its page count, brk is the next never used address.

large_object_space_init ==
  [objects |-> EmptyMap, from_space |-> {}, to_space |-> {}, free |-> EmptyMap,
   brk |-> LargeBase, live_pages_at_last_collection |-> 0]

large_object_space_npages(size) == (size + PageSize - 1) \div PageSize

large_object_space_contains(space, addr) == addr \in DOMAIN space.objects

large_object_space_start_gc(space) ==
  [space EXCEPT !.from_space = space.to_space \cup space.from_space,
                !.to_space = {},
                !.live_pages_at_last_collection = 0]

\* Returns [first, space]: first is whether this is the first mark of the cycle.
large_object_space_copy(space, addr) ==
  IF addr \notin space.from_space
  THEN [first |-> FALSE, space |-> space]
  ELSE [first |-> TRUE,
        space |-> [space EXCEPT
          !.from_space = space.from_space \ {addr},
          !.to_space = space.to_space \cup {addr},
          !.live_pages_at_last_collection =
             space.live_pages_at_last_collection + space.objects[addr]]]

\* The pages of every unmarked object go back to the free ranges, and read
\* as zero when they are used again.  Returns [space, mem].
large_object_space_finish_gc(space, m) ==
  LET dead == space.from_space
      InDead(a) == \E d \in dead : a >= d /\ a < d + space.objects[d] * PageSize
  IN [space |-> [space EXCEPT
        !.objects = [a \in DOMAIN space.objects \ dead |-> space.objects[a]],
        !.from_space = {},
        !.free = [a \in DOMAIN space.free \cup dead |->
                    IF a \in dead THEN space.objects[a] ELSE space.free[a]]],
      mem |-> [a \in {x \in DOMAIN m : ~InDead(x)} |-> m[a]]]

\* The fast path: the lowest best-fitting free range, or null.
\* Returns [ret, space].
large_object_space_alloc(space, npages) ==
  LET fits == {a \in DOMAIN space.free : space.free[a] >= npages}
  IN IF fits = {} THEN [ret |-> NULL, space |-> space]
     ELSE LET best == CHOOSE a \in fits :
                        \A b \in fits : space.free[a] < space.free[b]
                                        \/ (space.free[a] = space.free[b] /\ a <= b)
              left == space.free[best] - npages
              tail == best + npages * PageSize
              dom == (DOMAIN space.free \ {best})
                       \cup (IF left > 0 THEN {tail} ELSE {})
          IN [ret |-> best,
              space |-> [space EXCEPT
                !.free = [a \in dom |-> IF a = tail /\ left > 0 THEN left
                                        ELSE space.free[a]],
                !.objects = [a \in DOMAIN space.objects \cup {best} |->
                               IF a = best THEN npages ELSE space.objects[a]],
                !.to_space = space.to_space \cup {best}]]

\* The slow path: fresh pages from the system when mapped is TRUE, null when
\* the mapping fails.  Returns [ret, space].
large_object_space_obtain_and_alloc(space, npages, mapped) ==
  IF ~mapped THEN [ret |-> NULL, space |-> space]
  ELSE [ret |-> space.brk,
        space |-> [space EXCEPT
          !.brk = space.brk + npages * PageSize,
          !.objects = [a \in DOMAIN space.objects \cup {space.brk} |->
                         IF a = space.brk THEN npages ELSE space.objects[a]],
          !.to_space = space.to_space \cup {space.brk}]]

\* ------------------------------------------------------- visit and scan

\* visit whose visit_semi_space forwards the object and leaves *loc as it was.
visit_nowrite(space, l, m, obj) ==
  LET same == [abort |-> FALSE, write |-> FALSE, val |-> obj, space |-> space,
               large |-> l, mem |-> m, scan |-> NULL, fwd |-> {}]
  IN IF obj = NULL THEN same
     ELSE IF semi_space_contains(space, obj)
     THEN LET f == forward(space, m, obj)
          IN [abort |-> f.abort, write |-> FALSE, val |-> obj,
              space |-> f.space, large |-> l, mem |-> f.mem, scan |-> NULL,
              fwd |-> {<<obj, f.new_obj, f.copied>>}]
     ELSE IF large_object_space_contains(l, obj)
     THEN LET c == large_object_space_copy(l, obj)
          IN [same EXCEPT !.large = c.space,
                          !.scan = IF c.first THEN obj ELSE NULL]
     ELSE [same EXCEPT !.abort = TRUE]

\* visit whose visit_large_object_space scans the object at every visit, not
\* only when large_object_space_copy answers that the mark is the first.
visit_rescan(space, l, m, obj) ==
  LET same == [abort |-> FALSE, write |-> FALSE, val |-> obj, space |-> space,
               large |-> l, mem |-> m, scan |-> NULL, fwd |-> {}]
  IN IF obj = NULL THEN same
     ELSE IF semi_space_contains(space, obj)
     THEN LET f == forward(space, m, obj)
          IN [abort |-> f.abort, write |-> ~f.abort, val |-> f.new_obj,
              space |-> f.space, large |-> l, mem |-> f.mem, scan |-> NULL,
              fwd |-> {<<obj, f.new_obj, f.copied>>}]
     ELSE IF large_object_space_contains(l, obj)
     THEN LET c == large_object_space_copy(l, obj)
          IN [same EXCEPT !.large = c.space, !.scan = obj]
     ELSE [same EXCEPT !.abort = TRUE]

\* visit without the abort() of line 159: an address of neither space is
\* left alone.
visit_tolerant(space, l, m, obj) ==
  LET same == [abort |-> FALSE, write |-> FALSE, val |-> obj, space |-> space,
               large |-> l, mem |-> m, scan |-> NULL, fwd |-> {}]
  IN IF obj = NULL THEN same
     ELSE IF semi_space_contains(space, obj)
     THEN LET f == forward(space, m, obj)
          IN [abort |-> f.abort, write |-> ~f.abort, val |-> f.new_obj,
              space |-> f.space, large |-> l, mem |-> f.mem, scan |-> NULL,
              fwd |-> {<<obj, f.new_obj, f.copied>>}]
     ELSE IF large_object_space_contains(l, obj)
     THEN LET c == large_object_space_copy(l, obj)
          IN [same EXCEPT !.large = c.space,
                          !.scan = IF c.first THEN obj ELSE NULL]
     ELSE same

\* visit(loc, heap) with obj = *loc.  Returns [abort, write, val, space, large,
\* mem, scan, fwd]: write is whether *loc is assigned (val), scan the large
\* object whose fields are to be scanned next (or NULL), fwd the calls of
\* forward made, as <<obj, result, copied>>.
visit(space, l, m, obj) ==
  LET same == [abort |-> FALSE, write |-> FALSE, val |-> obj, space |-> space,
               large |-> l, mem |-> m, scan |-> NULL, fwd |-> {}]
  IN IF obj = NULL THEN same
     ELSE IF semi_space_contains(space, obj)
     THEN LET f == forward(space, m, obj)
          IN [abort |-> f.abort, write |-> ~f.abort, val |-> f.new_obj,
              space |-> f.space, large |-> l, mem |-> f.mem, scan |-> NULL,
              fwd |-> {<<obj, f.new_obj, f.copied>>}]
     ELSE IF large_object_space_contains(l, obj)
     THEN LET c == large_object_space_copy(l, obj)
          IN [same EXCEPT !.large = c.space,
                          !.scan = IF c.first THEN obj ELSE NULL]
     ELSE [same EXCEPT !.abort = TRUE]

\* The head of scan(heap, grey): the kind is read once, and an unknown kind
\* aborts.  A frame [obj, kind, i, cursor] is a call of scan that has visited
\* the fields before i; cursor marks the call of the drain loop, whose result
\* is assigned to grey.
scan_enter(m, obj, cursor) ==
  LET kind == Read(m, obj)
  IN [abort |-> kind \notin Kinds,
      frame |-> [obj |-> obj, kind |-> kind, i |-> 0, cursor |-> cursor]]

\* scan that returns grey itself: the cursor never moves past the object.
scan_result_stuck(frame) == frame.obj

scan_result(frame) == frame.obj + align_up(KindSize(frame.kind), ALIGNMENT)

\* ---------------------------------------------------------------- state

VARIABLES
  semi,      \* mut->heap.semi_space
  large,     \* mut->heap.large_object_space
  mem,       \* the words of both spaces that are not zero
  roots,     \* mut->roots: the first handle of the chain, or NULL
  handle,    \* handle[h] = [v, next] for every handle h
  pc,        \* where the mutator is
  caller,    \* what called the running collect()
  req,       \* the arguments of the running allocate(): [kind, size, dst]
  ret,       \* what the last allocate() returned
  grey,      \* collect's scan cursor
  h,         \* collect's cursor in the root chain
  stack,     \* the calls of scan in progress, innermost last
  diag,      \* the diagnostic of the abort
  nallocs,   \* allocate() calls made
  nstores,   \* set_field() calls made
  pre,       \* history: [mem, handle, semi, large] when collect() was entered
  fwdlog,    \* history: the forward() calls of the cycle, <<obj, result, copied>>
  events,    \* history: what the running allocate() call has done so far
  tospace    \* history: the start of the active half, hp as the last flip set it

vars == <<semi, large, mem, roots, handle, pc, caller, req, ret, grey, h,
          stack, diag, nallocs, nstores, pre, fwdlog, events, tospace>>

gcvars == <<grey, h, stack>>

Handles == 1..MaxHandles

NoHandle == [v |-> NULL, next |-> NULL]

NoReq == [kind |-> 0, size |-> 0, dst |-> NULL]

NoPre == [mem |-> EmptyMap, handle |-> EmptyMap, semi |-> EmptyMap,
          large |-> EmptyMap]

Event(op, arg, res) == [op |-> op, arg |-> arg, res |-> res]

HeapSizes == {MinHeapSize * Pow2(k) : k \in 0..MaxHeapShift}

\* initialize_gc(heap_size, &heap, &mut)
Init ==
  /\ \E heap_size \in HeapSizes : semi = initialize_semi_space(SemiBase, heap_size)
  /\ large = large_object_space_init
  /\ mem = EmptyMap
  /\ roots = NULL
  /\ handle = [x \in Handles |-> NoHandle]
  /\ pc = "run"
  /\ caller = "none"
  /\ req = NoReq
  /\ ret = NULL
  /\ grey = 0
  /\ h = NULL
  /\ stack = << >>
  /\ diag = "none"
  /\ nallocs = 0
  /\ nstores = 0
  /\ pre = NoPre
  /\ fwdlog = {}
  /\ events = << >>
  /\ tospace = semi.hp

\* The handles of the chain, from mut->roots.
RECURSIVE ChainFrom(_, _, _)
ChainFrom(hnd, x, n) ==
  IF x = NULL \/ n = 0 THEN << >> ELSE <<x>> \o ChainFrom(hnd, hnd[x].next, n - 1)

Chain == ChainFrom(handle, roots, MaxHandles)

InChain == {Chain[k] : k \in 1..Len(Chain)}

\* -------------------------------------------------------------- mutator
\* The mutator between two allocate() calls: it registers and unregisters
\* root slots, and reads and writes references through them.

mutvars == <<semi, large, pc, caller, req, ret, grey, h, stack, diag, nallocs,
             pre, fwdlog, events, tospace>>

\* A new handle in front of the chain.
PushHandle ==
  /\ pc = "run"
  /\ Handles \ InChain # {}
  /\ LET x == CHOOSE y \in Handles \ InChain : \A z \in Handles \ InChain : y <= z
     IN /\ handle' = [handle EXCEPT ![x] = [v |-> NULL, next |-> roots]]
        /\ roots' = x
  /\ UNCHANGED <<mutvars, mem, nstores>>

\* The first handle of the chain leaves it.
PopHandle ==
  /\ pc = "run"
  /\ roots # NULL
  /\ roots' = handle[roots].next
  /\ handle' = [handle EXCEPT ![roots] = NoHandle]
  /\ UNCHANGED <<mutvars, mem, nstores>>

\* The values the mutator can name: null and what its root slots hold.
Nameable == {NULL} \cup {handle[x].v : x \in InChain}

\* Addresses of no object, which a corrupted mutator may store: the word
\* below the mapping of the semi-space, and the first address past its end.
WildAddrs == {SemiBase - ALIGNMENT, semi.base + semi.size}

\* set_field(&obj->field[i], val), obj the referent of root slot x: the
\* mutator stores into objects only.
SetField(x, i, val) ==
  /\ pc = "run"
  /\ nstores < MaxStores
  /\ handle[x].v # NULL
  /\ handle[x].v \notin WildAddrs
  /\ Read(mem, FieldAddr(handle[x].v, i)) # val
  /\ mem' = Write(mem, FieldAddr(handle[x].v, i), val)
  /\ nstores' = nstores + 1
  /\ UNCHANGED <<mutvars, roots, handle>>

\* root slot y = get_field(&obj->field[i]), obj the referent of root slot x.
GetField(x, i, y) ==
  /\ pc = "run"
  /\ handle[x].v # NULL
  /\ handle[x].v \notin WildAddrs
  /\ handle[y].v # Read(mem, FieldAddr(handle[x].v, i))
  /\ handle' = [handle EXCEPT ![y].v = Read(mem, FieldAddr(handle[x].v, i))]
  /\ UNCHANGED <<mutvars, mem, roots, nstores>>

\* root slot x = val.
SetRoot(x, val) ==
  /\ pc = "run"
  /\ handle[x].v # val
  /\ handle' = [handle EXCEPT ![x].v = val]
  /\ UNCHANGED <<mutvars, mem, roots, nstores>>

\* The mutator calls allocate(mut, kind, size), to store the result in root
\* slot dst.
CallAllocate(kind, dst) ==
  /\ pc = "run"
  /\ nallocs < MaxAllocs
  /\ nallocs' = nallocs + 1
  /\ req' = [kind |-> kind, size |-> KindSize(kind), dst |-> dst]
  /\ pc' = "allocate"
  /\ events' = << >>
  /\ UNCHANGED <<semi, large, mem, roots, handle, caller, ret, gcvars, diag,
                 nstores, pre, fwdlog, tospace>>

\* allocate() has returned: the result goes to the root slot.
Return ==
  /\ pc = "returned"
  /\ handle' = [handle EXCEPT ![req.dst].v = ret]
  /\ pc' = "run"
  /\ req' = NoReq
  /\ ret' = NULL
  /\ pre' = NoPre
  /\ fwdlog' = {}
  /\ events' = << >>
  /\ UNCHANGED <<semi, large, mem, roots, caller, gcvars, diag, nallocs, nstores, tospace>>

\* ------------------------------------------------------------- allocate

Abort(d) ==
  /\ pc' = "aborted"
  /\ diag' = d

\* allocate whose test of line 221 is size > LARGE_OBJECT_THRESHOLD.
Allocate_strict ==
  /\ pc = "allocate"
  /\ pc' = IF req.size > LARGE_OBJECT_THRESHOLD THEN "allocate_large"
           ELSE "allocate_loop"
  /\ UNCHANGED <<semi, large, mem, roots, handle, caller, req, ret, gcvars,
                 diag, nallocs, nstores, pre, fwdlog, events, tospace>>

\* allocate, lines 221-222: the routing by size.
Allocate ==
  /\ pc = "allocate"
  /\ pc' = IF req.size >= LARGE_OBJECT_THRESHOLD THEN "allocate_large"
           ELSE "allocate_loop"
  /\ UNCHANGED <<semi, large, mem, roots, handle, caller, req, ret, gcvars,
                 diag, nallocs, nstores, pre, fwdlog, events, tospace>>

\* History: how many words of the block [addr, addr + size) past its header
\* are not zero.  The event "bump" of an allocation logs the word at addr and
\* this count, both as they were before the block was initialized.
StaleWords(m, addr, size) ==
  Cardinality({a \in DOMAIN m : a > addr /\ a < addr + size})

\* allocate, lines 225-240: one turn of the loop.
AllocateLoop ==
  /\ pc = "allocate_loop"
  /\ LET addr == semi.hp
         new_hp == align_up(addr + req.size, ALIGNMENT)
     IN IF semi.limit < new_hp
        THEN /\ pc' = "start_gc"
             /\ caller' = "collect_for_alloc"
             /\ events' = Append(events, Event("collect", req.size, 0))
             /\ UNCHANGED <<semi, mem, ret>>
        ELSE /\ semi' = [semi EXCEPT !.hp = new_hp]
             /\ mem' = clear_memory(Write(mem, addr, req.kind), addr + 8,
                                    req.size - 8)
             /\ ret' = addr
             /\ pc' = "returned"
             /\ events' = Append(events, Event("bump", Read(mem, addr),
                                                StaleWords(mem, addr, req.size)))
             /\ UNCHANGED caller
  /\ UNCHANGED <<large, roots, handle, req, gcvars, diag, nallocs, nstores,
                 pre, fwdlog, tospace>>

\* collect_for_alloc without the test of lines 184-187.
CollectForAlloc_unchecked ==
  /\ pc = "collect_for_alloc"
  /\ pc' = "allocate_loop"
  /\ UNCHANGED <<semi, large, mem, roots, handle, caller, req, ret, gcvars,
                 diag, nallocs, nstores, pre, fwdlog, events, tospace>>

\* collect_for_alloc, lines 183-187: after collect(mut) has returned.
CollectForAlloc ==
  /\ pc = "collect_for_alloc"
  /\ IF semi.limit - semi.hp < req.size
     THEN Abort("ran out of space")
     ELSE pc' = "allocate_loop" /\ UNCHANGED diag
  /\ UNCHANGED <<semi, large, mem, roots, handle, caller, req, ret, gcvars,
                 nallocs, nstores, pre, fwdlog, events, tospace>>

\* allocate_large, lines 197-199: the first steal.
AllocateLarge ==
  /\ pc = "allocate_large"
  /\ LET npages == large_object_space_npages(req.size)
         s == semi_space_steal_pages(semi, mem, npages)
     IN /\ semi' = s.space
        /\ mem' = s.mem
        /\ IF s.ok
           THEN /\ pc' = "allocate_large_alloc"
                /\ events' = Append(events, Event("steal", npages, 1))
                /\ UNCHANGED caller
           ELSE /\ pc' = "start_gc"
                /\ caller' = "allocate_large"
                /\ events' = events \o <<Event("steal", npages, 0),
                                         Event("collect", 0, 0)>>
  /\ UNCHANGED <<large, roots, handle, req, ret, gcvars, diag, nallocs,
                 nstores, pre, fwdlog, tospace>>

\* allocate_large, lines 200-203: the steal after collect(mut) has returned.
AllocateLargeRetry ==
  /\ pc = "allocate_large_retry"
  /\ LET npages == large_object_space_npages(req.size)
         s == semi_space_steal_pages(semi, mem, npages)
     IN /\ semi' = s.space
        /\ mem' = s.mem
        /\ events' = Append(events, Event("steal", npages, IF s.ok THEN 1 ELSE 0))
        /\ IF s.ok
           THEN pc' = "allocate_large_alloc" /\ UNCHANGED diag
           ELSE Abort("ran out of space")
  /\ UNCHANGED <<large, roots, handle, caller, req, ret, gcvars, nallocs,
                 nstores, pre, fwdlog, tospace>>

\* allocate_large that asks obtain_and_alloc for the pages without trying
\* alloc first.
AllocateLargeAlloc_slowonly(mapped) ==
  /\ pc = "allocate_large_alloc"
  /\ LET npages == large_object_space_npages(req.size)
         got == large_object_space_obtain_and_alloc(large, npages, mapped)
     IN /\ events' = Append(events, Event("obtain_and_alloc", npages, got.ret))
        /\ large' = got.space
        /\ IF got.ret = NULL
           THEN /\ Abort("weird: we have the space but mmap didn't work")
                /\ UNCHANGED <<mem, ret>>
           ELSE /\ mem' = Write(mem, got.ret, req.kind)
                /\ ret' = got.ret
                /\ pc' = "returned"
                /\ UNCHANGED diag
  /\ UNCHANGED <<semi, roots, handle, caller, req, gcvars, nallocs, nstores,
                 pre, fwdlog, tospace>>

\* allocate_large, lines 206-216: the pages, once the budget is secured.
\* mapped is whether the system can map fresh pages.
AllocateLargeAlloc(mapped) ==
  /\ pc = "allocate_large_alloc"
  /\ LET npages == large_object_space_npages(req.size)
         fast == large_object_space_alloc(large, npages)
         slow == large_object_space_obtain_and_alloc(large, npages, mapped)
         got == IF fast.ret # NULL THEN fast ELSE slow
         log == IF fast.ret # NULL
                THEN <<Event("alloc", npages, fast.ret)>>
                ELSE <<Event("alloc", npages, fast.ret),
                       Event("obtain_and_alloc", npages, slow.ret)>>
     IN /\ events' = events \o log
        /\ large' = got.space
        /\ IF got.ret = NULL
           THEN /\ Abort("weird: we have the space but mmap didn't work")
                /\ UNCHANGED <<mem, ret>>
           ELSE /\ mem' = Write(mem, got.ret, req.kind)
                /\ ret' = got.ret
                /\ pc' = "returned"
                /\ UNCHANGED diag
  /\ UNCHANGED <<semi, roots, handle, caller, req, gcvars, nallocs, nstores,
                 pre, fwdlog, tospace>>

\* -------------------------------------------------------------- collect

\* collect, line 168.
StartGC ==
  /\ pc = "start_gc"
  /\ large' = large_object_space_start_gc(large)
  /\ pre' = [mem |-> mem, handle |-> handle, semi |-> semi, large |-> large]
  /\ fwdlog' = {}
  /\ events' = Append(events, Event("start_gc", 0, 0))
  /\ pc' = "flip"
  /\ UNCHANGED <<semi, mem, roots, handle, caller, req, ret, gcvars, diag,
                 nallocs, nstores, tospace>>

\* collect, lines 169-171: the flip, grey = semi->hp, h = mut->roots.
Flip ==
  /\ pc = "flip"
  /\ semi' = flip(semi)
  /\ grey' = semi'.hp
  /\ h' = roots
  /\ tospace' = semi'.hp
  /\ events' = Append(events, Event("flip", semi.hp, semi'.hp))
  /\ pc' = "roots"
  /\ UNCHANGED <<large, mem, roots, handle, caller, req, ret, stack, diag,
                 nallocs, nstores, pre, fwdlog>>

\* What a call of visit leaves behind, but for the slot itself: r is visit's
\* result and rest the calls of scan below the one it may start.
Visited(r, rest) ==
  LET e == scan_enter(r.mem, r.scan, FALSE)
  IN /\ semi' = r.space
     /\ large' = r.large
     /\ fwdlog' = fwdlog \cup r.fwd
     /\ IF r.abort \/ (r.scan # NULL /\ e.abort)
        THEN Abort("abort") /\ stack' = rest
        ELSE /\ UNCHANGED <<pc, diag>>
             /\ stack' = IF r.scan # NULL THEN Append(rest, e.frame) ELSE rest

\* collect whose loop over the roots advances mut->roots itself.
VisitRoot_pop ==
  /\ pc = "roots"
  /\ stack = << >>
  /\ h # NULL
  /\ LET r == visit(semi, large, mem, handle[h].v)
     IN /\ Visited(r, << >>)
        /\ mem' = r.mem
        /\ handle' = IF r.write THEN [handle EXCEPT ![h].v = r.val] ELSE handle
  /\ h' = handle[h].next
  /\ roots' = handle[h].next
  /\ events' = Append(events, Event("visit_root", h, 0))
  /\ UNCHANGED <<caller, req, ret, grey, nallocs, nstores, pre, tospace>>

\* collect, lines 171-172: visit(&h->v, heap) and h = h->next.
VisitRoot ==
  /\ pc = "roots"
  /\ stack = << >>
  /\ h # NULL
  /\ LET r == visit(semi, large, mem, handle[h].v)
     IN /\ Visited(r, << >>)
        /\ mem' = r.mem
        /\ handle' = IF r.write THEN [handle EXCEPT ![h].v = r.val] ELSE handle
  /\ h' = handle[h].next
  /\ events' = Append(events, Event("visit_root", h, 0))
  /\ UNCHANGED <<roots, caller, req, ret, grey, nallocs, nstores, pre, tospace>>

\* collect whose loop over the roots may stop before the end of the chain.
RootsDone_early ==
  /\ pc = "roots"
  /\ stack = << >>
  /\ pc' = "drain"
  /\ UNCHANGED <<semi, large, mem, roots, handle, caller, req, ret, gcvars,
                 diag, nallocs, nstores, pre, fwdlog, events, tospace>>

\* collect, line 171: the end of the root chain.
RootsDone ==
  /\ pc = "roots"
  /\ stack = << >>
  /\ h = NULL
  /\ pc' = "drain"
  /\ UNCHANGED <<semi, large, mem, roots, handle, caller, req, ret, gcvars,
                 diag, nallocs, nstores, pre, fwdlog, events, tospace>>

\* collect, lines 174-175: the test of the drain loop, and the head of
\* scan(heap, grey).
Drain ==
  /\ pc = "drain"
  /\ stack = << >>
  /\ IF grey < semi.hp
     THEN LET e == scan_enter(mem, grey, TRUE)
          IN IF e.abort
             THEN Abort("abort") /\ UNCHANGED stack
             ELSE stack' = <<e.frame>> /\ UNCHANGED <<pc, diag>>
     ELSE /\ pc' = "finish_gc"
          /\ UNCHANGED <<stack, diag>>
  /\ UNCHANGED <<semi, large, mem, roots, handle, caller, req, ret, grey, h,
                 nallocs, nstores, pre, fwdlog, events, tospace>>

\* scan, lines 112-113, in the innermost call: visit the next field, or
\* return once the fields are done.
ScanField ==
  /\ pc \in {"roots", "drain"}
  /\ stack # << >>
  /\ LET n == Len(stack)
         top == stack[n]
         below == SubSeq(stack, 1, n - 1)
         loc == FieldAddr(top.obj, top.i)
         r == visit(semi, large, mem, Read(mem, loc))
     IN IF top.i < NumFields
        THEN /\ Visited(r, Append(below, [top EXCEPT !.i = top.i + 1]))
             /\ mem' = IF r.write THEN Write(r.mem, loc, r.val) ELSE r.mem
             /\ UNCHANGED grey
        ELSE /\ stack' = below
             /\ grey' = IF top.cursor THEN scan_result(top) ELSE grey
             /\ UNCHANGED <<semi, large, mem, pc, diag, fwdlog>>
  /\ UNCHANGED <<roots, handle, caller, req, ret, h, nallocs, nstores, pre,
                 events, tospace>>

\* collect, line 176.
FinishGC ==
  /\ pc = "finish_gc"
  /\ LET f == large_object_space_finish_gc(large, mem)
     IN /\ large' = f.space
        /\ mem' = f.mem
        /\ events' = Append(events,
             Event("finish_gc", f.space.live_pages_at_last_collection, 0))
  /\ pc' = "steal"
  /\ UNCHANGED <<semi, roots, handle, caller, req, ret, gcvars, diag, nallocs,
                 nstores, pre, fwdlog, tospace>>

\* collect without line 177: the collection ends with the limit of the flip.
StealAfterGC_skipped ==
  /\ pc = "steal"
  /\ events' = Append(events,
       Event("steal", large.live_pages_at_last_collection, 0))
  /\ pc' = IF caller = "collect_for_alloc" THEN "collect_for_alloc"
           ELSE "allocate_large_retry"
  /\ caller' = "none"
  /\ grey' = 0
  /\ h' = NULL
  /\ UNCHANGED <<semi, mem, large, roots, handle, req, ret, stack, diag,
                 nallocs, nstores, pre, fwdlog, tospace>>

\* collect, line 177, and the return to the caller.
StealAfterGC ==
  /\ pc = "steal"
  /\ LET s == semi_space_steal_pages(semi, mem,
                                     large.live_pages_at_last_collection)
     IN /\ semi' = s.space
        /\ mem' = s.mem
        /\ events' = Append(events,
             Event("steal", large.live_pages_at_last_collection,
                   IF s.ok THEN 1 ELSE 0))
  /\ pc' = IF caller = "collect_for_alloc" THEN "collect_for_alloc"
           ELSE "allocate_large_retry"
  /\ caller' = "none"
  /\ grey' = 0
  /\ h' = NULL
  /\ UNCHANGED <<large, roots, handle, req, ret, stack, diag, nallocs,
                 nstores, pre, fwdlog, tospace>>

\* ------------------------------------------------------- specification

Next ==
  \/ PushHandle
  \/ PopHandle
  \/ \E x \in InChain, i \in 0..(NumFields - 1), val \in Nameable \cup WildAddrs :
       SetField(x, i, val)
  \/ \E x \in InChain, i \in 0..(NumFields - 1), y \in InChain :
       GetField(x, i, y)
  \/ \E x \in InChain, val \in Nameable : SetRoot(x, val)
  \/ \E kind \in Kinds, dst \in InChain : CallAllocate(kind, dst)
  \/ Return
  \/ Allocate
  \/ AllocateLoop
  \/ CollectForAlloc
  \/ AllocateLarge
  \/ AllocateLargeRetry
  \/ \E mapped \in BOOLEAN : AllocateLargeAlloc(mapped)
  \/ StartGC
  \/ Flip
  \/ VisitRoot
  \/ RootsDone
  \/ Drain
  \/ ScanField
  \/ FinishGC
  \/ StealAfterGC

Spec == Init /\ [][Next]_vars

\* The code runs one statement after another: a collection in progress is
\* never left waiting.
CollectStep ==
  \/ StartGC
  \/ Flip
  \/ VisitRoot
  \/ RootsDone
  \/ Drain
  \/ ScanField
  \/ FinishGC
  \/ StealAfterGC

FairSpec == Spec /\ WF_vars(CollectStep)

\* ------------------------------------------------------ the object graph

\* collect() has just returned to its caller.
CollectReturned == pc \in {"collect_for_alloc", "allocate_large_retry"}

FieldIndexes == 0..(NumFields - 1)

\* The objects the fields of o designate in memory m.
Succ(m, o) == {Read(m, FieldAddr(o, i)) : i \in FieldIndexes} \ {NULL}

RECURSIVE Closure(_, _, _)
Closure(m, seen, frontier) ==
  IF frontier = {} THEN seen
  ELSE LET next == UNION {Succ(m, o) : o \in frontier} \ (seen \cup frontier)
       IN Closure(m, seen \cup frontier, next)

\* The objects reachable from the root chain with slot values hnd in memory m.
Reachable(m, hnd) == Closure(m, {}, {hnd[x].v : x \in InChain} \ {NULL})

\* Where the cycle's copies put o: the copy that forward made of it, or o
\* itself when none was made (a large object, or null).
Copies(o) == {e[2] : e \in {f \in fwdlog : f[1] = o /\ f[3]}}

Moved(o) == IF Copies(o) = {} THEN o ELSE CHOOSE n \in Copies(o) : TRUE

InTospace(a) == a >= tospace /\ a < semi.hp

\* The slots of the graph before the collection: the root slots, and the
\* fields of the objects reachable then.
PreSlots ==
  {<<"root", x, 0>> : x \in InChain}
    \cup {<<"field", o, i>> : o \in Reachable(pre.mem, pre.handle), i \in FieldIndexes}

PreValue(s) ==
  IF s[1] = "root" THEN pre.handle[s[2]].v
  ELSE Read(pre.mem, FieldAddr(s[2], s[3]))

PostValue(s) ==
  IF s[1] = "root" THEN handle[s[2]].v
  ELSE Read(mem, FieldAddr(Moved(s[2]), s[3]))

\* ---------------------------------------------------------------- claims

\* C1: identity preservation.  Whenever two slots (root slots or fields of
\* reachable objects) referenced the same semi-space object when collect()
\* was entered, both hold the same tospace address when it returns; and at
\* every moment of a cycle forward has copied no object twice, and every call
\* of forward on one original has returned the same address.
C1_IdentityPreserved ==
  /\ \A e1 \in fwdlog, e2 \in fwdlog : e1[1] = e2[1] => e1[2] = e2[2]
  /\ \A o \in {e[1] : e \in fwdlog} : Cardinality(Copies(o)) <= 1
  /\ CollectReturned =>
       \A s1 \in PreSlots, s2 \in PreSlots :
         (PreValue(s1) = PreValue(s2) /\ semi_space_contains(semi, PreValue(s1)))
           => /\ PostValue(s1) = PostValue(s2)
              /\ InTospace(PostValue(s1))

\* Two root slots and a field held the same semi-space object, and the
\* collection is over.
C1_Witness ==
  /\ CollectReturned
  /\ \E x \in InChain, y \in InChain, o \in Reachable(pre.mem, pre.handle) :
       /\ x # y
       /\ pre.handle[x].v = pre.handle[y].v
       /\ semi_space_contains(semi, pre.handle[x].v)
       /\ \E i \in FieldIndexes : Read(pre.mem, FieldAddr(o, i)) = pre.handle[x].v

\* C2: conservation.  When collect() returns, the graph reachable from the
\* roots is the graph that was reachable when it was entered, relocated:
\* the relocation is one to one, the reachable objects now are the
\* relocated reachable objects of before, each has the kind it had, and
\* each root slot and each field designates the relocated object of what it
\* designated before (null for null).
C2_Conservation ==
  CollectReturned =>
    LET before == Reachable(pre.mem, pre.handle)
    IN /\ \A o1 \in before, o2 \in before : Moved(o1) = Moved(o2) => o1 = o2
       /\ Reachable(mem, handle) = {Moved(o) : o \in before}
       /\ \A o \in before :
            /\ Read(pre.mem, o) \in Kinds
            /\ Read(mem, Moved(o)) = Read(pre.mem, o)
            /\ \A i \in FieldIndexes :
                 Read(mem, FieldAddr(Moved(o), i))
                   = Moved(Read(pre.mem, FieldAddr(o, i)))
       /\ \A x \in InChain : handle[x].v = Moved(pre.handle[x].v)

\* A collection has returned with a moved small object that references a
\* marked large object, or the other way round, and the generation counter
\* shows it was not the first collection.
C2_Witness ==
  /\ CollectReturned
  /\ semi.count >= 2
  /\ \E o \in Reachable(pre.mem, pre.handle), i \in FieldIndexes :
       LET t == Read(pre.mem, FieldAddr(o, i))
       IN /\ t # NULL
          /\ semi_space_contains(semi, o) # semi_space_contains(semi, t)


\* The pc values of collect().
CollectPcs == {"start_gc", "flip", "roots", "drain", "finish_gc", "steal"}

\* The reachable objects of the graph at the start of the cycle that no
\* visit has forwarded or marked yet.
Unvisited ==
  IF pc = "start_gc" THEN Reachable(mem, handle)
  ELSE {o \in Reachable(pre.mem, pre.handle) :
          IF semi_space_contains(semi, o) THEN Copies(o) = {}
          ELSE o \in large.from_space}

\* The copies in tospace that the drain loop has still to scan.
Unscanned ==
  {e[2] : e \in {f \in fwdlog : f[3] /\ f[2] >= grey}}
    \ {stack[k].obj : k \in {n \in 1..Len(stack) : stack[n].cursor}}

RECURSIVE FrameSteps(_)
FrameSteps(stk) ==
  IF stk = << >> THEN 0
  ELSE (NumFields - Head(stk).i + 1) + FrameSteps(Tail(stk))

\* The number of steps collect() can still take, at most: an object not yet
\* visited costs its visit, its scan and the return of the scan.
Rank ==
  LET work == (NumFields + 3) * Cardinality(Unvisited)
                + (NumFields + 2) * Cardinality(Unscanned)
                + FrameSteps(stack)
  IN CASE pc = "start_gc" -> work + Len(Chain) + 6
       [] pc = "flip" -> work + Len(Chain) + 5
       [] pc = "roots" -> work + Len(ChainFrom(handle, h, MaxHandles)) + 4
       [] pc = "drain" -> work + 3
       [] pc = "finish_gc" -> 2
       [] pc = "steal" -> 1
       [] OTHER -> 0

\* A step taken during a collection lowers Rank and stays in collect(), or
\* returns from it after the steal, or aborts; the drain loop is left only
\* with grey at hp.
C3_Descent ==
  pc \in CollectPcs =>
    /\ Rank' < Rank
    /\ Rank' >= 0
    /\ pc' \in CollectPcs \cup {"collect_for_alloc", "allocate_large_retry",
                                "aborted"}
    /\ (pc = "steal" => CollectReturned')
    /\ (pc' = "finish_gc" => (grey' = semi'.hp /\ stack' = << >>))

\* C3: termination.  collect() always comes to its end: every step of a
\* collection lowers the bound Rank on the steps that remain, which is never
\* negative, so no collection takes more than Rank steps; the drain loop
\* ends with grey at hp and no scan in progress, finish_gc and the budget
\* steal follow, and the step after the steal returns to the caller.  This
\* for acyclic and cyclic graphs, cycles through large objects included.
\* (The guards of the steps of collect() cover every state of a collection,
\* so a collection that has not ended can always take its next step.)
C3_CollectTerminates == [][C3_Descent]_vars

\* A collection has returned for a graph with a cycle that passes through a
\* large object: the large object is reachable from itself.
C3_Witness ==
  /\ CollectReturned
  /\ \E o \in Reachable(mem, handle) :
       /\ large_object_space_contains(large, o)
       /\ o \in Closure(mem, {}, Succ(mem, o))


TospaceEnd == tospace + semi.size \div 2

\* C4: capacity invariant.  After initialization and after every successful
\* allocate() or allocate_large() (the mutator is running, or the call has
\* just returned), base <= hp <= limit <= base + size.
C4_CapacityInvariant ==
  pc \in {"run", "returned"} =>
    /\ semi.base <= semi.hp
    /\ semi.hp <= semi.limit
    /\ semi.limit <= semi.base + semi.size

\* An allocation has returned after a collection (a flip) and a page steal
\* that lowered limit below the end of the half.
C4_Witness ==
  /\ pc = "returned"
  /\ semi.count >= 1
  /\ semi.limit < TospaceEnd
  /\ semi.hp > tospace

\* The pages of the objects of the large-object space.
LargePages ==
  LET RECURSIVE Sum(_)
      Sum(S) == IF S = {} THEN 0
                ELSE LET a == CHOOSE x \in S : TRUE
                     IN large.objects[a] + Sum(S \ {a})
  IN Sum(DOMAIN large.objects)

\* C5: shared fixed ceiling.  Whenever the mutator is running, the budget of
\* the semi-space, twice limit minus the start of the active half, plus
\* the pages of the objects of the large-object space, is at most the
\* size of the semi-space.
C5_SharedCeiling ==
  pc = "run" =>
    2 * (semi.limit - tospace) + PageSize * LargePages <= semi.size

\* The mutator runs after a collection that a live large object survived,
\* with small objects in tospace.
C5_Witness ==
  /\ pc = "run"
  /\ semi.count >= 1
  /\ large.live_pages_at_last_collection > 0
  /\ LargePages > 0
  /\ semi.hp > tospace


\* The steal at the end of the last collection failed.
EndStealFailed ==
  /\ CollectReturned
  /\ events # << >>
  /\ events[Len(events)].op = "steal"
  /\ events[Len(events)].res = 0


\* The step is a successful call of semi_space_steal_pages, the last event
\* logged: from allocate_large or at the end of collect().
StealSucceeded ==
  /\ pc \in {"allocate_large", "allocate_large_retry", "steal"}
  /\ Len(events') > Len(events)
  /\ events'[Len(events')].op = "steal"
  /\ events'[Len(events')].res = 1

StolenPages == events'[Len(events')].arg

EvenPages(n) == IF n % 2 = 1 THEN n + 1 ELSE n

\* C6, as the spec states it: a successful steal of n pages lowers the free
\* capacity limit - hp by n * page_size, n rounded up to even.
C6_AsStated ==
  [][StealSucceeded =>
       (semi.limit - semi.hp) - (semi'.limit - semi'.hp)
         = EvenPages(StolenPages) * PageSize]_vars

\* C6, amended: a successful steal of n pages leaves hp unchanged and lowers
\* the free capacity limit - hp of the active half by half of
\* n * page_size, n rounded up to even; the two mirrored halves together
\* give up n * page_size.
C6_BudgetConservation ==
  [][StealSucceeded =>
       /\ semi'.hp = semi.hp
       /\ 2 * ((semi.limit - semi.hp) - (semi'.limit - semi'.hp))
            = EvenPages(StolenPages) * PageSize]_vars

\* A steal of an odd number of pages has succeeded.
C6_Witness ==
  /\ pc = "allocate_large_alloc"
  /\ events[Len(events)].op = "steal"
  /\ events[Len(events)].arg = 3
  /\ events[Len(events)].res = 1
  /\ semi.limit = TospaceEnd - 2 * PageSize


\* The number of events of the running call with the given op.
CountOp(op) == Cardinality({k \in 1..Len(events) : events[k].op = op})

SmallRequest == req.size > 0 /\ req.size < LARGE_OBJECT_THRESHOLD

LargeRequest == req.size >= LARGE_OBJECT_THRESHOLD

\* C7: collection-triggered retry.  A small allocate() call runs at most one
\* collection.  It runs one exactly when the block does not fit; once the
\* collection has returned, the call aborts with the heap-exhaustion
\* diagnostic if limit - hp < size, and otherwise the re-check of the loop
\* finds room, so the call returns without a second collection.
C7_SmallRetry ==
  SmallRequest =>
    /\ CountOp("collect") <= 1
    /\ (pc = "allocate_loop" /\ CountOp("collect") = 1)
         => /\ semi.limit - semi.hp >= req.size
            /\ align_up(semi.hp + req.size, ALIGNMENT) <= semi.limit
    /\ (pc = "aborted" /\ diag # "abort")
         => /\ diag = "ran out of space"
            /\ CountOp("collect") = 1
            /\ CountOp("finish_gc") = 1
            /\ semi.limit - semi.hp < req.size
    /\ (pc = "returned" /\ CountOp("collect") = 1)
         => /\ CountOp("start_gc") = 1
            /\ CountOp("bump") = 1
            /\ events[1].op = "collect"

\* A small allocation that did not fit has returned after its collection.
C7_Witness ==
  /\ SmallRequest
  /\ pc = "returned"
  /\ CountOp("collect") = 1


\* Every byte of the block [addr, addr + size) past its header word is zero
\* in memory m: no whole word of it is set, and the bytes it has of its last
\* word, when size is not a multiple of 8, are zero.
BodyZero(m, addr, size) ==
  LET full == addr + (size \div 8) * 8
  IN /\ \A a \in DOMAIN m : ~(a > addr /\ a < full)
     /\ (size % 8 # 0) => LowBytes(Read(m, full), size % 8) = 0

C8_Returns ==
  (pc = "allocate_loop" /\ pc' = "returned") =>
    /\ ret' = semi.hp
    /\ semi'.hp = align_up(semi.hp + req.size, ALIGNMENT)
    /\ semi'.hp >= ret' + req.size
    /\ semi'.hp % ALIGNMENT = 0
    /\ Read(mem', ret') = req.kind
    /\ BodyZero(mem', ret', req.size)

\* C8: small-object allocation result.  A successful small allocate(kind,
\* size) returns the value hp had before the bump, leaves hp at
\* align_up(old hp + size, 8), stores kind in the header word and leaves
\* every other byte of the block zero, whatever the memory held before.
C8_SmallAllocation == [][C8_Returns]_vars

\* A small allocation has returned a block whose memory, in the generation
\* before the last, held an object that was forwarded: the header word was
\* a forwarding pointer and a field was set.
C8_Witness ==
  /\ pc = "returned"
  /\ SmallRequest
  /\ semi.count >= 2
  /\ events[Len(events)].op = "bump"
  /\ events[Len(events)].arg \notin Kinds \cup {0}
  /\ events[Len(events)].res > 0


\* The steal of event k is the one collect() makes after finish_gc.
GCSteal(k) ==
  /\ k > 1
  /\ events[k].op = "steal"
  /\ events[k - 1].op = "finish_gc"

\* The steals of the current call that a collection did not make.
OwnSteals ==
  {k \in 1..Len(events) : events[k].op = "steal" /\ ~GCSteal(k)}

LargePcs == {"allocate_large", "allocate_large_retry", "allocate_large_alloc"}

SmallPcs == {"allocate_loop", "collect_for_alloc"}

\* The bytes semi_space_steal_pages takes from the limit for the request.
RequestHalfSize ==
  (EvenPages(large_object_space_npages(req.size)) * PageSize) \div 2

C9_LargeRouted ==
  /\ pc \notin SmallPcs
  /\ CountOp("bump") = 0
  /\ pc \in {"allocate", "allocate_large"} <=> events = << >>
  /\ events # << >>
       => /\ events[1].op = "steal"
          /\ events[1].arg = large_object_space_npages(req.size)

C9_SmallRouted ==
  /\ pc \notin LargePcs
  /\ OwnSteals = {}
  /\ CountOp("alloc") = 0
  /\ CountOp("obtain_and_alloc") = 0

C9_Step ==
  /\ LargeRequest' => C9_LargeRouted'
  /\ SmallRequest' => C9_SmallRouted'
  /\ pc \in {"allocate_large", "allocate_large_retry"}
       => /\ semi'.hp = semi.hp
          /\ \/ semi'.limit = semi.limit - RequestHalfSize
             \/ /\ semi' = semi
                /\ semi.limit - semi.hp < RequestHalfSize
  /\ pc = "allocate_large_alloc" => semi' = semi

\* C9: threshold routing.  A request of size >= LARGE_OBJECT_THRESHOLD, the
\* value 8192 included, is served by allocate_large: its first act is a steal
\* of npages(size), which takes half of that count rounded up to even off the
\* limit or fails, and no step of allocate_large moves hp.  A request below
\* the threshold never reaches allocate_large, alloc or obtain_and_alloc, and
\* the only steals during it are the ones a collection makes after finish_gc.
C9_ThresholdRouting == [][C9_Step]_vars

\* A request of exactly the threshold was served by the large-object space
\* after a steal of its two pages.
C9_Witness ==
  /\ pc = "returned"
  /\ req.size = LARGE_OBJECT_THRESHOLD
  /\ events[1] = Event("steal", 2, 1)
  /\ ret >= LargeBase
  /\ large_object_space_contains(large, ret)

LastEvent == events[Len(events)]

WeirdDiag == "weird: we have the space but mmap didn't work"

\* C10: the protocol of allocate_large.  The first act is a steal.  When it
\* succeeds no collection runs; when it fails exactly one collection runs and
\* the steal is retried once, and a failed retry aborts with "ran out of
\* space".  alloc is called once, right after a successful steal, and
\* obtain_and_alloc only right after an alloc that returned null; when both
\* return null the call aborts with the other diagnostic.  A call that
\* returns leaves kind in the header word of the block.
C10_LargeProtocol ==
  (LargeRequest /\ events # << >>) =>
    /\ 1 \in OwnSteals
    /\ Cardinality(OwnSteals) <= 2
    /\ events[1].res = 1 => CountOp("collect") = 0 /\ OwnSteals = {1}
    /\ events[1].res = 0
         => /\ Len(events) >= 2
            /\ events[2].op = "collect"
            /\ CountOp("collect") = 1
            /\ \A k \in OwnSteals \ {1} : GCSteal(k - 1)
    /\ pc = "allocate_large_retry"
         => /\ events[1].res = 0
            /\ OwnSteals = {1}
            /\ CountOp("start_gc") = 1
            /\ CountOp("finish_gc") = 1
            /\ GCSteal(Len(events))
    /\ (LastEvent.op = "steal" /\ Len(events) \in OwnSteals \ {1}
          /\ LastEvent.res = 0)
         <=> (pc = "aborted" /\ diag = "ran out of space")
    /\ (LastEvent.op = "steal" /\ Len(events) \in OwnSteals
          /\ LastEvent.res = 1)
         <=> pc = "allocate_large_alloc"
    /\ CountOp("alloc") <= 1
    /\ \A k \in 1..Len(events) :
         /\ events[k].op = "alloc"
              => /\ k - 1 \in OwnSteals
                 /\ events[k - 1].res = 1
                 /\ events[k].res = NULL
                      => /\ k < Len(events)
                         /\ events[k + 1].op = "obtain_and_alloc"
         /\ events[k].op = "obtain_and_alloc"
              => /\ k > 1
                 /\ events[k - 1].op = "alloc"
                 /\ events[k - 1].res = NULL
    /\ (LastEvent.op = "obtain_and_alloc" /\ LastEvent.res = NULL)
         <=> (pc = "aborted" /\ diag = WeirdDiag)
    /\ WeirdDiag # "ran out of space"
    /\ pc = "returned"
         => /\ LastEvent.op \in {"alloc", "obtain_and_alloc"}
            /\ ret = LastEvent.res
            /\ ret # NULL
            /\ Read(mem, ret) = req.kind

\* A large request whose first steal failed has returned a block from the
\* fast path after the one collection and the retried steal.
C10_Witness ==
  /\ pc = "returned"
  /\ LargeRequest
  /\ events[1] = Event("steal", large_object_space_npages(req.size), 0)
  /\ CountOp("collect") = 1
  /\ Cardinality(OwnSteals) = 2
  /\ LastEvent.op = "alloc"


\* A step of collect() is a call of visit on a root slot or on a field.
VisitsRoot == pc = "roots" /\ stack = << >> /\ h # NULL

VisitsField ==
  /\ pc \in {"roots", "drain"}
  /\ stack # << >>
  /\ stack[Len(stack)].i < NumFields

\* The field the innermost scan visits next.
VisitedField == FieldAddr(stack[Len(stack)].obj, stack[Len(stack)].i)

\* What visit does to a slot that held obj and holds now': the four cases.
VisitOutcome(obj, now) ==
  CASE obj = NULL ->
         /\ now = NULL
         /\ pc' = pc
         /\ UNCHANGED <<semi, large, mem, fwdlog, diag>>
    [] obj # NULL /\ semi_space_contains(semi, obj) ->
         /\ now = forward(semi, mem, obj).new_obj
         /\ pc' = pc
         /\ large' = large
    [] obj # NULL /\ ~semi_space_contains(semi, obj)
         /\ large_object_space_contains(large, obj) ->
         /\ now = obj
         /\ pc' = pc
         /\ semi' = semi
    [] OTHER ->
         /\ pc' = "aborted"
         /\ diag' = "abort"
         /\ now = obj

\* The slots of the graph before the collection hold null or an address of
\* one of the two spaces.
NoWildSlot ==
  \A s \in PreSlots :
    \/ PreValue(s) = NULL
    \/ semi_space_contains(pre.semi, PreValue(s))
    \/ large_object_space_contains(pre.large, PreValue(s))

C11_Step ==
  /\ VisitsRoot => VisitOutcome(handle[h].v, handle'[h].v)
  /\ VisitsField => VisitOutcome(Read(mem, VisitedField), Read(mem', VisitedField))
  /\ CollectReturned' => NoWildSlot'

\* C11: the dispatch of visit.  A null slot changes nothing; a slot with an
\* address of the semi-space mapping receives the result of forward; a slot
\* with the address of a large object keeps its value; any other address
\* aborts, so no collection returns when a root slot or a field of a
\* reachable object held such an address at its start.
C11_VisitDispatch == [][C11_Step]_vars

\* A collection has aborted in visit on a field that holds the first
\* address past the end of the mapping.
C11_Witness ==
  /\ pc = "aborted"
  /\ diag = "abort"
  /\ stack # << >>
  /\ \E k \in 1..Len(stack), i \in FieldIndexes :
       Read(mem, FieldAddr(stack[k].obj, i)) = semi.base + semi.size


Split == semi.base + semi.size \div 2

C12_Step ==
  pc = "flip" =>
    /\ tospace' # tospace
    /\ tospace' \in {semi.base, Split}
    /\ semi'.hp = tospace'
    /\ semi'.limit = tospace' + semi.size \div 2
    /\ semi'.count = semi.count + 1

\* C12: flip swaps the halves.  Every flip of collect() makes the other half
\* the active one, whatever hp is, sets hp to the start of the new tospace
\* and limit to its end, and adds one to the generation counter.
C12_FlipSwaps == [][C12_Step]_vars


\* C13: the bounds inside collect().  At every step of a collection
\* base <= hp <= limit <= base + size; once the flip is made, the copies
\* never take hp past the end of the new tospace, and the scan cursor stays
\* between the start of the tospace and hp.
C13_BoundsInCollect ==
  /\ pc \in CollectPcs
       => /\ semi.base <= semi.hp
          /\ semi.hp <= semi.limit
          /\ semi.limit <= semi.base + semi.size
  /\ pc \in {"roots", "drain", "finish_gc", "steal"}
       => /\ tospace <= grey
          /\ grey <= semi.hp
          /\ semi.hp <= TospaceEnd

\* The drain loop is running and the survivors fill the new tospace to its
\* last byte.
C13_Witness ==
  /\ pc = "drain"
  /\ tospace < grey
  /\ grey < semi.hp
  /\ semi.hp = semi.limit
  /\ semi.hp = TospaceEnd


\* The events of the running collection, from its start_gc on.
GCStart == CHOOSE k \in 1..Len(events) : events[k].op = "start_gc"

GCLog == SubSeq(events, GCStart, Len(events))

\* The log of a collection that has visited the first k root slots, followed
\* by tail.
CycleLog(k, tail) ==
  <<Event("start_gc", 0, 0), Event("flip", pre.semi.hp, tospace)>>
    \o [j \in 1..k |-> Event("visit_root", Chain[j], 0)]
    \o tail

\* The pages of the large objects marked in this cycle.
MarkedPages ==
  LET RECURSIVE Sum(_)
      Sum(S) == IF S = {} THEN 0
                ELSE LET a == CHOOSE x \in S : TRUE
                     IN large.objects[a] + Sum(S \ {a})
  IN Sum(large.to_space)

\* C14: the order of a collection cycle.  start_gc comes first, then the
\* flip, then the visits of the root slots in chain order; the drain loop
\* starts when every root slot has been visited; finish_gc runs when grey
\* has reached hp; the steal comes last, for the live-page count that this
\* cycle's finish_gc produced.
C14_CycleOrder ==
  /\ pc = "flip" => GCLog = <<Event("start_gc", 0, 0)>>
  /\ pc = "roots"
       => \E k \in 0..Len(Chain) :
            /\ GCLog = CycleLog(k, << >>)
            /\ h = IF k < Len(Chain) THEN Chain[k + 1] ELSE NULL
  /\ pc = "drain" => GCLog = CycleLog(Len(Chain), << >>) /\ h = NULL
  /\ pc = "finish_gc"
       => /\ GCLog = CycleLog(Len(Chain), << >>)
          /\ grey = semi.hp
          /\ stack = << >>
  /\ pc = "steal"
       => /\ GCLog = CycleLog(Len(Chain), <<Event("finish_gc", MarkedPages, 0)>>)
          /\ large.live_pages_at_last_collection = MarkedPages
          /\ grey = semi.hp
  /\ CollectReturned
       => \E ok \in {0, 1} :
            GCLog = CycleLog(Len(Chain), <<Event("finish_gc", MarkedPages, 0),
                                           Event("steal", MarkedPages, ok)>>)

\* A collection has returned after two root visits, copies in the tospace
\* for the drain loop to scan, a marked large object and a steal.
C14_Witness ==
  /\ CollectReturned
  /\ Len(Chain) = 2
  /\ \E e \in fwdlog : e[3]
  /\ MarkedPages > 0
  /\ events[Len(events)] = Event("steal", MarkedPages, 1)


\* The steps that call semi_space_steal_pages, and the pages they ask for.
StealPcs == {"allocate_large", "allocate_large_retry", "steal"}

StealArg ==
  IF pc = "steal" THEN large.live_pages_at_last_collection
  ELSE large_object_space_npages(req.size)

\* The event the steal of this step logs.
StealEvent == events'[Len(events) + 1]

C15_Step ==
  pc \in StealPcs =>
    /\ StealEvent.op = "steal"
    /\ StealEvent.arg = StealArg
    /\ StealEvent.res = 0
         <=> semi.limit - semi.hp < (EvenPages(StealArg) * PageSize) \div 2
    /\ StealEvent.res = 0 => semi' = semi /\ mem' = mem
    /\ pc = "steal"
         => /\ CollectReturned'
            /\ diag' = diag
            /\ UNCHANGED <<large, roots, handle>>

\* C15: a failed steal.  semi_space_steal_pages(n) returns false exactly
\* when limit - hp is less than half the bytes of n pages, n rounded up to
\* even; it then leaves hp, limit and the memory as they were.  The steal
\* at the end of collect() is followed by the return of collect() whatever
\* it answered.
C15_FailedSteal == [][C15_Step]_vars

\* A steal has failed with room left in the tospace, though less than it
\* asked for, and with objects in memory.
C15_Witness ==
  /\ pc = "start_gc"
  /\ caller = "allocate_large"
  /\ events[1].op = "steal"
  /\ events[1].res = 0
  /\ semi.limit - semi.hp > 0
  /\ semi.hp > tospace


\* The start of the half that is not the active one.
Fromspace == IF tospace = semi.base THEN Split ELSE semi.base

InRange(a, r) == a >= r[1] /\ a < r[1] + r[2]

C16_Step ==
  (pc \in StealPcs /\ StealEvent.res = 1) =>
    LET s == semi_space_steal_pages(semi, mem, StealArg)
        len == (EvenPages(StealArg) * PageSize) \div 2
        to == s.released[1]
        from == s.released[2]
    IN /\ Len(s.released) = 2
       /\ to = <<semi'.limit, len>>
       /\ semi'.limit + len = semi.limit
       /\ semi'.limit >= semi.hp
       /\ semi'.limit >= tospace
       /\ semi.limit <= TospaceEnd
       /\ from[2] = len
       /\ len > 0
            => /\ from[1] >= Fromspace
               /\ from[1] + len <= Fromspace + semi.size \div 2
               /\ from[1] - Fromspace = to[1] - tospace
       /\ DOMAIN mem' = {a \in DOMAIN mem : ~InRange(a, to) /\ ~InRange(a, from)}
       /\ \A a \in DOMAIN mem' : mem'[a] = mem[a]
       /\ \A a \in DOMAIN mem \ DOMAIN mem' : ~InTospace(a) /\ a < LargeBase

\* C16: what a successful steal releases.  The first range is [new limit,
\* old limit), at or above hp inside the active half; the second has the
\* same length, lies inside the other half and starts at the same offset
\* from the start of its half; memory changes nowhere else, and no word of
\* an allocated object is in either range.
C16_MirroredRelease == [][C16_Step]_vars

\* A steal has succeeded with the lower half active, after an earlier steal
\* of the same generation, and stale words of the other half were released.
C16_Witness ==
  /\ pc = "allocate_large_alloc"
  /\ tospace = semi.base
  /\ TospaceEnd - semi.limit > RequestHalfSize
  /\ \E a \in DOMAIN pre.mem \ DOMAIN mem : a >= semi.limit + semi.size \div 2


IsLarge(sp, l, o) ==
  /\ o # NULL
  /\ ~semi_space_contains(sp, o)
  /\ large_object_space_contains(l, o)

\* visit on a slot that holds the large object o and holds now afterwards:
\* the object is marked where it is, and a scan of its fields starts exactly
\* when this is its first mark of the cycle.
LargeVisit(o, now) ==
  /\ now = o
  /\ semi' = semi
  /\ mem' = mem
  /\ fwdlog' = fwdlog
  /\ o \in large'.to_space
  /\ IF o \in large.from_space
     THEN /\ Len(stack') = Len(stack) + 1
          /\ stack'[Len(stack')]
               = [obj |-> o, kind |-> Read(mem, o), i |-> 0, cursor |-> FALSE]
     ELSE Len(stack') = Len(stack)

\* The scans in progress of large objects: one at most for each, and only
\* of marked objects.
LargeFrames == {k \in 1..Len(stack) : ~stack[k].cursor}

OneScanEach ==
  /\ \A k \in LargeFrames : stack[k].obj \in large.to_space
  /\ \A j \in LargeFrames, k \in LargeFrames :
       stack[j].obj = stack[k].obj => j = k

C17_AtReturn ==
  \A o \in Reachable(pre.mem, pre.handle) :
    IsLarge(pre.semi, pre.large, o) =>
      /\ o \in large.to_space
      /\ Copies(o) = {}
      /\ Read(mem, o) = Read(pre.mem, o)
      /\ Read(mem, o) \in Kinds
      /\ \A i \in FieldIndexes :
           LET t == Read(pre.mem, FieldAddr(o, i))
           IN /\ Read(mem, FieldAddr(o, i)) = Moved(t)
              /\ semi_space_contains(semi, t)
                   => /\ InTospace(Moved(t))
                      /\ Read(mem, Moved(t)) = Read(pre.mem, t)

C17_Step ==
  /\ (VisitsRoot /\ IsLarge(semi, large, handle[h].v))
       => LargeVisit(handle[h].v, handle'[h].v)
  /\ (VisitsField /\ IsLarge(semi, large, Read(mem, VisitedField)))
       => LargeVisit(Read(mem, VisitedField), Read(mem', VisitedField))
  /\ OneScanEach'
  /\ CollectReturned' => C17_AtReturn'

\* C17: large objects stay in place.  A visit of a large object leaves the
\* slot, the object, hp and the memory as they are and marks the object; its
\* fields are scanned when the mark is the first of the cycle and at no
\* other visit.  When collect() returns, every reachable large object is
\* marked at its address with its kind in the header, and each of its
\* fields designates the relocated referent, copied into the tospace when
\* it was a semi-space object.
C17_LargeInPlace == [][C17_Step]_vars

\* A collection has returned with a large object that two root slots hold,
\* and a field of it was the only reference to a semi-space object.
C17_Witness ==
  /\ CollectReturned
  /\ \E x \in InChain, y \in InChain, i \in FieldIndexes :
       LET o == pre.handle[x].v
           t == Read(pre.mem, FieldAddr(o, i))
       IN /\ x # y
          /\ pre.handle[y].v = o
          /\ IsLarge(pre.semi, pre.large, o)
          /\ semi_space_contains(semi, t)
          /\ Moved(t) # t
          /\ InTospace(Read(mem, FieldAddr(o, i)))


C18_AtReturn ==
  /\ DOMAIN handle = DOMAIN pre.handle
  /\ \A x \in Handles :
       /\ handle[x].next = pre.handle[x].next
       /\ handle[x].v # pre.handle[x].v
            => /\ x \in InChain
               /\ semi_space_contains(pre.semi, pre.handle[x].v)
               /\ handle[x].v = Moved(pre.handle[x].v)

C18_Step ==
  /\ pc \in CollectPcs
       => /\ roots' = roots
          /\ DOMAIN handle' = DOMAIN handle
          /\ \A x \in Handles :
               /\ handle'[x].next = handle[x].next
               /\ handle'[x].v # handle[x].v
                    => /\ VisitsRoot
                       /\ x = h
                       /\ semi_space_contains(semi, handle[x].v)
  /\ CollectReturned' => C18_AtReturn'

\* C18: the frame of the root chain.  No step of collect() changes
\* mut->roots, the set of handles or a next link; the value of a slot
\* changes only at the visit of that slot, and only when it held a
\* semi-space address.  At the return the chain is the chain of the start,
\* and the slots that held null or a large object hold what they held.
C18_RootChainFrame == [][C18_Step]_vars

\* A collection has returned with a chain of two slots: one held a
\* semi-space object and holds its copy, the other holds the large object
\* it held.
C18_Witness ==
  /\ CollectReturned
  /\ Len(Chain) = 2
  /\ \E x \in InChain, y \in InChain :
       /\ semi_space_contains(semi, pre.handle[x].v)
       /\ handle[x].v # pre.handle[x].v
       /\ IsLarge(pre.semi, pre.large, pre.handle[y].v)
       /\ handle[y].v = pre.handle[y].v


\* The values of the root slots and of the fields of the objects reachable
\* from them, now.
LiveValues ==
  {handle[x].v : x \in InChain}
    \cup {Read(mem, FieldAddr(o, i)) : o \in Reachable(mem, handle),
                                       i \in FieldIndexes}

InFromspace(a) == a >= Fromspace /\ a < Fromspace + semi.size \div 2

\* The objects laid out from address a to hp all have a kind tag as header.
RECURSIVE TospaceTagged(_)
TospaceTagged(a) ==
  IF a >= semi.hp THEN a = semi.hp
  ELSE /\ Read(mem, a) \in Kinds
       /\ TospaceTagged(a + align_up(KindSize(Read(mem, a)), ALIGNMENT))

\* C19: no dangling reference after a collection.  When collect() returns,
\* every root slot and every field of every reachable object holds null,
\* the address of an object in [tospace start, hp) whose header is a kind
\* tag, or the address of a marked large object; none holds an address of
\* the fromspace half, and every object in [tospace start, hp) has a kind
\* tag as its header.
C19_NoDangling ==
  CollectReturned =>
    /\ \A v \in LiveValues :
         /\ \/ v = NULL
            \/ InTospace(v) /\ Read(mem, v) \in Kinds
            \/ /\ large_object_space_contains(large, v)
               /\ v \in large.to_space
               /\ Read(mem, v) \in Kinds
         /\ ~InFromspace(v)
    /\ TospaceTagged(tospace)

\* The second collection or a later one has returned with two copies in the
\* tospace, one referenced by a field of the other and found already
\* forwarded by a later visit.
C19_Witness ==
  /\ CollectReturned
  /\ semi.count >= 2
  /\ \E a \in Reachable(mem, handle), b \in Reachable(mem, handle) :
       /\ InTospace(a)
       /\ InTospace(b)
       /\ b \in Succ(mem, a)
       /\ \E e \in fwdlog : e[2] = b /\ ~e[3]

====
